---- MODULE Spec2Model ----
(***************************************************************************)
(* Model of beancount_render (src/src/lib.rs): BasicRenderer projects a    *)
(* beancount AST (Ledger, Directive, Open, Transaction, Posting, CostSpec, *)
(* ...) to text by a sequence of write!/writeln! calls on an io::Write     *)
(* sink.                                                                   *)
(*                                                                         *)
(* Text is modelled by TLA+ strings, byte for byte.  Every emitter is an   *)
(* operator that yields the sequence of strings its write!/writeln! calls  *)
(* hand to the sink, in call order.  Option<T> is <<>> (None) or <<x>>     *)
(* (Some(x)).  A HashMap / HashSet is the sequence in which that instance  *)
(* iterates its entries (arbitrary but fixed per instance); Init draws     *)
(* every iteration order.                                                  *)
(***************************************************************************)
EXTENDS Integers, Sequences, FiniteSets, TLC

VARIABLES
    node,      \* the renderable handed to Renderer::render: <<kind, val>>
    sink,      \* bytes the sink has accepted so far
    idx,       \* Ledger render: index of the next directive of the loop
    result,    \* "running", or the returned value: "Ok", "Io", "Unsupported"
    nwrites,   \* number of write!/writeln! calls that reached the sink
    nfailed    \* number of those calls the sink rejected

vars == <<node, sink, idx, result, nwrites, nfailed>>

(***************************************************************************)
(* Bounds of the model                                                     *)
(***************************************************************************)
MaxDirectives == 2    \* longest ledger
MaxParts == 2         \* most path segments of a stand-alone Account
MaxPostings == 2      \* most postings of a transaction

(***************************************************************************)
(* Strings                                                                 *)
(***************************************************************************)
\* a tagged value <<kind, val>>: a Directive variant, or the renderable of a call
Kind(n) == n[1]
Val(n) == n[2]

None == <<>>
Some(x) == <<x>>
IsSome(o) == o # <<>>
Unwrap(o) == o[1]

RECURSIVE Concat(_)
\* the bytes of a sequence of strings, in order
Concat(ss) == IF ss = <<>> THEN "" ELSE Head(ss) \o Concat(Tail(ss))

RECURSIVE Join(_, _)
\* [T]::join(sep) of the standard library
Join(ss, sep) ==
    IF ss = <<>> THEN ""
    ELSE IF Len(ss) = 1 THEN ss[1]
    ELSE ss[1] \o sep \o Join(Tail(ss), sep)

Prefix(s, n) == SubSeq(s, 1, n)
StartsWith(s, p) == Len(s) >= Len(p) /\ SubSeq(s, 1, Len(p)) = p
EndsWith(s, p) == Len(s) >= Len(p) /\ SubSeq(s, Len(s) - Len(p) + 1, Len(s)) = p
Contains(s, p) == \E i \in 1..(Len(s) - Len(p) + 1) : SubSeq(s, i, i + Len(p) - 1) = p

Digit(d) == SubSeq("0123456789", d + 1, d + 1)

RECURSIVE NatToString(_)
NatToString(n) == IF n < 10 THEN Digit(n) ELSE NatToString(n \div 10) \o Digit(n % 10)

RECURSIVE Pow10(_)
Pow10(e) == IF e = 0 THEN 1 ELSE 10 * Pow10(e - 1)

RECURSIVE PadFraction(_, _)
\* the fraction digits, zero-padded on the left to the scale
PadFraction(s, e) == IF Len(s) >= e THEN s ELSE PadFraction("0" \o s, e)

\* Display of a Decimal [m: mantissa, e: scale], value m / 10^e: the exact
\* value with all e fraction digits, no rounding
DecimalToString(d) ==
    LET a == IF d.m < 0 THEN 0 - d.m ELSE d.m
        sign == IF d.m < 0 THEN "-" ELSE ""
        int == NatToString(a \div Pow10(d.e))
    IN  IF d.e = 0 THEN sign \o int
        ELSE sign \o int \o "." \o PadFraction(NatToString(a % Pow10(d.e)), d.e)

(***************************************************************************)
(* Structural emitters                                                     *)
(***************************************************************************)
AccountTypes == {"Assets", "Liabilities", "Equity", "Income", "Expenses"}

\* the match of lines 132-138
AccountTypeName(ty) ==
    CASE ty = "Assets" -> "Assets"
      [] ty = "Liabilities" -> "Liabilities"
      [] ty = "Equity" -> "Equity"
      [] ty = "Income" -> "Income"
      [] ty = "Expenses" -> "Expenses"

\* write!(write, "{}:{}", <type name>, account.parts.join(":"))
RenderAccount(account) ==
    << AccountTypeName(account.ty) \o ":" \o Join(account.parts, ":") >>

\* write!(w, "{} {}", amount.num, amount.currency)
RenderAmount(amount) ==
    << DecimalToString(amount.num) \o " " \o amount.currency >>

\* Flag::Okay, Flag::Warning, Flag::Other(s)
RenderFlag(flag) ==
    CASE flag.tag = "Okay" -> << "*" >>
      [] flag.tag = "Warning" -> << "!" >>
      [] flag.tag = "Other" -> << flag.s >>

\* a plausible slip: the separator is written whatever is present
RenderIncompleteAmountAlwaysSpace(ia) ==
    << (IF IsSome(ia.num) THEN DecimalToString(Unwrap(ia.num)) ELSE "")
       \o " " \o (IF IsSome(ia.currency) THEN Unwrap(ia.currency) ELSE "") >>

RenderIncompleteAmount(ia) ==
    CASE IsSome(ia.num) /\ IsSome(ia.currency) ->
            << DecimalToString(Unwrap(ia.num)) \o " " \o Unwrap(ia.currency) >>
      [] ~IsSome(ia.num) /\ IsSome(ia.currency) -> << Unwrap(ia.currency) >>
      [] IsSome(ia.num) /\ ~IsSome(ia.currency) -> << DecimalToString(Unwrap(ia.num)) >>
      [] OTHER -> << "" >>

\* Option::or
OptionOr(a, b) == IF IsSome(a) THEN a ELSE b

\* lines 330-350: the writes between the brackets
CostSpecContent(cost) ==
    LET number == OptionOr(cost.number_total, cost.number_per)
        both == IsSome(number) /\ IsSome(cost.currency)
        w1 == IF both
              THEN << DecimalToString(Unwrap(number)) \o " " \o Unwrap(cost.currency) >>
              ELSE <<>>
        first1 == ~both
        w2 == IF IsSome(cost.date)
              THEN (IF ~first1 THEN << ", " >> ELSE <<>>) \o << Unwrap(cost.date) >>
              ELSE <<>>
        first2 == IF IsSome(cost.date) THEN FALSE ELSE first1
        w3 == IF IsSome(cost.label)
              THEN (IF ~first2 THEN << ", " >> ELSE <<>>) \o << Unwrap(cost.label) >>
              ELSE <<>>
    IN  w1 \o w2 \o w3

\* a plausible slip: the bracket kind taken from the per-unit number
DoubleBracketsFromPerUnit(cost) == IsSome(cost.number_per)

\* let double_brackets = cost.number_total.is_some()
DoubleBrackets(cost) == IsSome(cost.number_total)

RenderCostSpec(cost) ==
    << IF DoubleBrackets(cost) THEN "{{" ELSE "{" >>
    \o CostSpecContent(cost)
    \o << IF DoubleBrackets(cost) THEN "}}" ELSE "}" >>

RECURSIVE RenderKeyValue(_)
\* for (key, value) in kv { writeln!(w, "\t{}: {}", key, value)?; }
RenderKeyValue(kv) ==
    IF kv = <<>> THEN <<>>
    ELSE << "\t" \o kv[1][1] \o ": " \o kv[1][2] \o "\n" >> \o RenderKeyValue(Tail(kv))

(***************************************************************************)
(* Simple directive emitters                                               *)
(***************************************************************************)
RECURSIVE OpenCurrencies(_, _)
\* lines 96-101: the loop over open.currencies.iter().enumerate(), from the
\* 0-based index i on
OpenCurrencies(currencies, i) ==
    IF i >= Len(currencies) THEN <<>>
    ELSE << currencies[i + 1] >>
         \o (IF i < Len(currencies) - 1 THEN << " " >> ELSE <<>>)
         \o OpenCurrencies(currencies, i + 1)

\* lines 102-108: match open.booking
OpenBooking(booking) ==
    CASE booking = "Strict" -> << " \"strict\"" >>
      [] booking = "None" -> <<>>
      [] booking = "Average" -> << " \"average\"" >>
      [] booking = "Fifo" -> << " \"fifo\"" >>
      [] booking = "Lifo" -> << " \"lifo\"" >>

RenderOpen(open) ==
    << open.date \o " open " >>
    \o RenderAccount(open.account)
    \o OpenCurrencies(open.currencies, 0)
    \o OpenBooking(open.booking)
    \o << "\n" >>
    \o RenderKeyValue(open.meta)

RenderClose(close) ==
    << close.date \o " close " >>
    \o RenderAccount(close.account)
    \o << "\n" >>
    \o RenderKeyValue(close.meta)

RenderBalance(balance) ==
    << balance.date \o " balance " >>
    \o RenderAccount(balance.account)
    \o << "\t" >>
    \o RenderAmount(balance.amount)
    \o << "\n" >>
    \o RenderKeyValue(balance.meta)

RenderBcOption(option) ==
    << "option \"" \o option.name \o "\" \"" \o option.val \o "\"\n" >>

RenderCommodity(commodity) ==
    << commodity.date \o " commodity " \o commodity.name \o "\n" >>
    \o RenderKeyValue(commodity.meta)

RenderCustom(custom) ==
    << custom.date \o " custom \"" \o custom.name \o "\" "
       \o Join(custom.args, " ") \o "\n" >>
    \o RenderKeyValue(custom.meta)

RenderDocument(document) ==
    << document.date \o " document " >>
    \o RenderAccount(document.account)
    \o << " \"" \o document.path \o "\"\n" >>
    \o RenderKeyValue(document.meta)

RenderEvent(event) ==
    << event.date \o " event \"" \o event.name \o "\" \""
       \o event.description \o "\"\n" >>
    \o RenderKeyValue(event.meta)

RenderInclude(include) ==
    << "include " \o include.filename \o "\n" >>

RenderNote(note) ==
    << note.date \o " note " >>
    \o RenderAccount(note.account)
    \o << " \"" \o note.comment \o "\"\n" >>
    \o RenderKeyValue(note.meta)

RenderPad(pad) ==
    << pad.date \o " pad " >>
    \o RenderAccount(pad.pad_to_account)
    \o << " " >>
    \o RenderAccount(pad.pad_from_account)
    \o << "\n" >>
    \o RenderKeyValue(pad.meta)

\* a plausible slip: the config position is written even when config is None
PluginConfigPlaceholder(config) ==
    IF IsSome(config) THEN << " \"" \o Unwrap(config) \o "\"" >> ELSE << " \"\"" >>

\* lines 238-240: if let Some(config) = &plugin.config
PluginConfig(config) ==
    IF IsSome(config) THEN << " \"" \o Unwrap(config) \o "\"" >> ELSE <<>>

RenderPlugin(plugin) ==
    << "plugin \"" \o plugin.module \o "\"" >>
    \o PluginConfig(plugin.config)
    \o << "\n" >>

RenderPrice(price) ==
    << price.date \o " price " \o price.currency \o " " >>
    \o RenderAmount(price.amount)
    \o << "\n" >>
    \o RenderKeyValue(price.meta)

RenderQuery(query) ==
    << query.date \o " query \"" \o query.name \o "\" \""
       \o query.query_string \o "\"\n" >>
    \o RenderKeyValue(query.meta)

(***************************************************************************)
(* Transaction and posting                                                 *)
(***************************************************************************)
RenderPosting(posting) ==
    << "\t" >>
    \o (IF IsSome(posting.flag)
        THEN RenderFlag(Unwrap(posting.flag)) \o << " " >>
        ELSE <<>>)
    \o RenderAccount(posting.account)
    \o << "\t" >>
    \o RenderIncompleteAmount(posting.units)
    \o (IF IsSome(posting.price)
        THEN << " @ " >> \o RenderAmount(Unwrap(posting.price))
        ELSE <<>>)
    \o (IF IsSome(posting.cost)
        THEN << " " >> \o RenderCostSpec(Unwrap(posting.cost))
        ELSE <<>>)
    \o RenderKeyValue(posting.meta)

RECURSIVE SpacePrefixed(_)
\* for tag in &transaction.tags { write!(w, " {}", tag)?; } (and links)
SpacePrefixed(items) ==
    IF items = <<>> THEN <<>>
    ELSE << " " \o items[1] >> \o SpacePrefixed(Tail(items))

RECURSIVE RenderPostings(_)
\* for posting in &transaction.postings { self.render(posting, w)?; }
RenderPostings(postings) ==
    IF postings = <<>> THEN <<>>
    ELSE RenderPosting(postings[1]) \o RenderPostings(Tail(postings))

\* lines 267-278: the writes up to the postings
TransactionHeader(transaction) ==
    << transaction.date \o " " >>
    \o RenderFlag(transaction.flag)
    \o (IF IsSome(transaction.payee)
        THEN << " \"" \o Unwrap(transaction.payee) \o "\"" >>
        ELSE <<>>)
    \o << " \"" \o transaction.narration \o "\"" >>
    \o SpacePrefixed(transaction.tags)
    \o SpacePrefixed(transaction.links)

RenderTransaction(transaction) ==
    TransactionHeader(transaction)
    \o RenderPostings(transaction.postings)
    \o RenderKeyValue(transaction.meta)

(***************************************************************************)
(* Directive dispatcher                                                    *)
(***************************************************************************)
\* the writes of the emitter the match delegates to
DirectiveWrites(directive) ==
    CASE Kind(directive) = "Open" -> RenderOpen(Val(directive))
      [] Kind(directive) = "Close" -> RenderClose(Val(directive))
      [] Kind(directive) = "Balance" -> RenderBalance(Val(directive))
      [] Kind(directive) = "Option" -> RenderBcOption(Val(directive))
      [] Kind(directive) = "Commodity" -> RenderCommodity(Val(directive))
      [] Kind(directive) = "Custom" -> RenderCustom(Val(directive))
      [] Kind(directive) = "Document" -> RenderDocument(Val(directive))
      [] Kind(directive) = "Event" -> RenderEvent(Val(directive))
      [] Kind(directive) = "Include" -> RenderInclude(Val(directive))
      [] Kind(directive) = "Note" -> RenderNote(Val(directive))
      [] Kind(directive) = "Pad" -> RenderPad(Val(directive))
      [] Kind(directive) = "Plugin" -> RenderPlugin(Val(directive))
      [] Kind(directive) = "Price" -> RenderPrice(Val(directive))
      [] Kind(directive) = "Query" -> RenderQuery(Val(directive))
      [] Kind(directive) = "Transaction" -> RenderTransaction(Val(directive))
      [] OTHER -> <<>>

\* a plausible slip: the Unsupported arm is a silent no-op
RenderDirectiveSilentDrop(directive) ==
    [err |-> "none", calls |-> DirectiveWrites(directive)]

\* lines 60-77: err is "Unsupported" for the Unsupported arm, which writes
\* nothing; otherwise the delegate's writes are made
RenderDirective(directive) ==
    IF Kind(directive) = "Unsupported"
    THEN [err |-> "Unsupported", calls |-> <<>>]
    ELSE [err |-> "none", calls |-> DirectiveWrites(directive)]

(***************************************************************************)
(* The sink and the `?` after each write                                   *)
(***************************************************************************)
RECURSIVE MaxCallLen(_)
\* the longest of the calls' byte counts
MaxCallLen(calls) ==
    IF calls = <<>> THEN 0
    ELSE LET m == MaxCallLen(Tail(calls))
         IN  IF Len(calls[1]) > m THEN Len(calls[1]) ELSE m

\* What a run of write!/writeln! calls, each followed by `?`, can do to an
\* io::Write sink: every call is accepted (failedAt = 0), or call j is the
\* first the sink rejects, after it took the first p bytes of that call, and
\* the calls after j are never made.  write_fmt hands a call's text to
\* write_all piece by piece, the empty pieces too, and the sink's write_all
\* may take bytes before it returns its error: p is anything from no byte
\* to the whole call, also for a call with no bytes.
SinkOutcomes(calls) ==
    { [accepted |-> Concat(calls), attempts |-> Len(calls), failedAt |-> 0] }
    \cup
    { [accepted |-> Concat(SubSeq(calls, 1, jp[1] - 1)) \o Prefix(calls[jp[1]], jp[2]),
       attempts |-> jp[1],
       failedAt |-> jp[1]] :
         jp \in { q \in (1..Len(calls)) \X (0..MaxCallLen(calls)) :
                    q[2] <= Len(calls[q[1]]) } }

\* a plausible slip: the error of a failed write is dropped and the loop
\* goes on with the next directive
AfterDirectiveSkipIo(err) ==
    IF err = "Unsupported" THEN "Unsupported" ELSE "running"

\* lines 37-38: `?` returns the error of the directive or of the writeln!,
\* otherwise the loop goes on
AfterDirective(err) ==
    IF err = "none" THEN "running" ELSE err

(***************************************************************************)
(* Inputs                                                                  *)
(***************************************************************************)
Dec(m, e) == [m |-> m, e |-> e]
Date1 == "2023-01-01"
Checking == [ty |-> "Assets", parts |-> <<"Bank", "Checking">>]
Food == [ty |-> "Expenses", parts |-> <<"Food">>]
Usd5 == [num |-> Dec(500, 2), currency |-> "USD"]
Eur == [num |-> Dec(11, 1), currency |-> "EUR"]
Okay == [tag |-> "Okay", s |-> ""]
Warning == [tag |-> "Warning", s |-> ""]
OtherP == [tag |-> "Other", s |-> "P"]
Flags == {Okay, Warning, OtherP, [tag |-> "Other", s |-> ""]}
Amounts == {Usd5, Eur, [num |-> Dec(-15, 1), currency |-> "USD"]}

\* sequences over S of length at most n
SeqUpTo(S, n) == UNION { [1..k -> S] : k \in 0..n }

\* iteration orders of HashMap<&str, &str> instances
Metas ==
    { <<>>, << <<"k1", "v1">> >>,
      << <<"k1", "v1">>, <<"k2", "v2">> >>, << <<"k2", "v2">>, <<"k1", "v1">> >> }
SmallMetas == { <<>>, << <<"k1", "v1">> >> }

Accounts == [ty : AccountTypes, parts : SeqUpTo({"Bank", "Checking"}, MaxParts)]

IncompleteAmounts ==
    [num : {None, Some(Dec(500, 2)), Some(Dec(-15, 1)), Some(Dec(7, 0)), Some(Dec(5, 2))},
     currency : {None, Some("USD"), Some("")}]

CostSpecs ==
    [number_per : {None, Some(Dec(500, 2))},
     number_total : {None, Some(Dec(10000, 2))},
     currency : {None, Some("USD")},
     date : {None, Some(Date1)},
     label : {None, Some("lot1")}]

CostSamples ==
    { c \in CostSpecs : /\ IsSome(c.currency) /\ ~IsSome(c.label)
                        /\ IsSome(c.number_per) # IsSome(c.number_total)
                        /\ IsSome(c.date) = IsSome(c.number_per) }

Opens ==
    [date : {Date1}, account : {Checking, Food},
     currencies : {<<>>, <<"USD">>, <<"USD", "EUR">>},
     booking : {"Strict", "None", "Average", "Fifo", "Lifo"},
     meta : Metas]

Plugins == [module : {"beancount.plugins.auto"}, config : {None, Some("cfg")}]

Postings ==
    [flag : {None, Some(Warning), Some(OtherP)},
     account : {Checking, Food},
     units : { a \in IncompleteAmounts : a.num \in {None, Some(Dec(500, 2))} },
     price : {None, Some(Eur)},
     cost : {None} \cup { Some(c) : c \in CostSamples },
     meta : SmallMetas]

FoodPosting ==
    [flag |-> None, account |-> Food, units |-> [num |-> Some(Dec(500, 2)), currency |-> Some("USD")],
     price |-> None, cost |-> None, meta |-> <<>>]

PostingSamples ==
    { FoodPosting,
      [FoodPosting EXCEPT !.flag = Some(Warning), !.price = Some(Eur),
                          !.meta = << <<"k1", "v1">> >>],
      [FoodPosting EXCEPT !.account = Checking, !.units = [num |-> None, currency |-> None],
                          !.cost = Some([number_per |-> None, number_total |-> Some(Dec(10000, 2)),
                                         currency |-> Some("USD"), date |-> None, label |-> None])] }

Transactions ==
    [date : {Date1}, flag : {Okay, OtherP},
     payee : {None, Some("Cafe")}, narration : {"Coffee"},
     tags : {<<>>, <<"#trip", "#fun">>, <<"#fun", "#trip">>},
     links : {<<>>, <<"^inv1">>},
     postings : SeqUpTo(PostingSamples, MaxPostings),
     meta : SmallMetas]

Coffee ==
    [date |-> Date1, flag |-> Okay, payee |-> None, narration |-> "Coffee",
     tags |-> <<>>, links |-> <<>>, postings |-> <<FoodPosting>>, meta |-> <<>>]

Dir(kind, val) == <<kind, val>>

\* one directive of every kind, the transaction with and without metadata
DirectiveSamples ==
    { Dir("Open", [date |-> Date1, account |-> Checking, currencies |-> <<"USD">>,
                   booking |-> "Strict", meta |-> <<>>]),
      Dir("Close", [date |-> Date1, account |-> Checking, meta |-> <<>>]),
      Dir("Balance", [date |-> "2023-02-01", account |-> Checking,
                      amount |-> [num |-> Dec(10000, 2), currency |-> "USD"], meta |-> <<>>]),
      Dir("Option", [name |-> "title", val |-> "Ledger"]),
      Dir("Commodity", [date |-> Date1, name |-> "USD", meta |-> << <<"k1", "v1">> >>]),
      Dir("Custom", [date |-> Date1, name |-> "budget", args |-> <<"a", "b">>, meta |-> <<>>]),
      Dir("Document", [date |-> Date1, account |-> Checking, path |-> "/tmp/a.pdf", meta |-> <<>>]),
      Dir("Event", [date |-> Date1, name |-> "location", description |-> "Paris", meta |-> <<>>]),
      Dir("Include", [filename |-> "other.bean"]),
      Dir("Note", [date |-> Date1, account |-> Food, comment |-> "hi", meta |-> <<>>]),
      Dir("Pad", [date |-> Date1, pad_to_account |-> Checking, pad_from_account |-> Food,
                  meta |-> <<>>]),
      Dir("Plugin", [module |-> "beancount.plugins.auto", config |-> None]),
      Dir("Price", [date |-> Date1, currency |-> "EUR", amount |-> Usd5, meta |-> <<>>]),
      Dir("Query", [date |-> Date1, name |-> "q", query_string |-> "SELECT 1", meta |-> <<>>]),
      Dir("Transaction", Coffee),
      Dir("Transaction", [Coffee EXCEPT !.meta = << <<"k1", "v1">> >>]),
      Dir("Unsupported", <<>>) }

\* the simple directives rendered on their own
Closes == [date : {Date1}, account : {Checking, Food}, meta : SmallMetas]
Balances == [date : {Date1}, account : {Checking}, amount : Amounts, meta : SmallMetas]
BcOptions == [name : {"title"}, val : {"Ledger", ""}]
Commodities == [date : {Date1}, name : {"USD", "EUR"}, meta : SmallMetas]
Customs ==
    [date : {Date1}, name : {"budget"}, args : {<<>>, <<"a">>, <<"a", "b">>}, meta : SmallMetas]
Documents == [date : {Date1}, account : {Checking, Food}, path : {"/tmp/a.pdf"}, meta : SmallMetas]
Events == [date : {Date1}, name : {"location"}, description : {"Paris", ""}, meta : SmallMetas]
Includes == [filename : {"other.bean", "a.bean"}]
Notes == [date : {Date1}, account : {Checking, Food}, comment : {"hi"}, meta : SmallMetas]
Pads ==
    [date : {Date1}, pad_to_account : {Checking, Food}, pad_from_account : {Checking, Food},
     meta : SmallMetas]
Prices == [date : {Date1}, currency : {"EUR"}, amount : Amounts, meta : SmallMetas]
Queries == [date : {Date1}, name : {"q"}, query_string : {"SELECT 1"}, meta : SmallMetas]

Ledgers == [directives : SeqUpTo(DirectiveSamples, MaxDirectives)]

Nodes ==
    { <<"Ledger", l>> : l \in Ledgers }
    \cup { <<"Account", a>> : a \in Accounts }
    \cup { <<"IncompleteAmount", a>> : a \in IncompleteAmounts }
    \cup { <<"CostSpec", c>> : c \in CostSpecs }
    \cup { <<"Open", o>> : o \in Opens }
    \cup { <<"Plugin", p>> : p \in Plugins }
    \cup { <<"Posting", p>> : p \in Postings }
    \cup { <<"Transaction", t>> : t \in Transactions }
    \cup { <<"render", d>> : d \in Documents }
    \cup { <<"Document", d>> : d \in Documents }
    \cup { <<"Directive", d>> : d \in DirectiveSamples }
    \cup { <<"Close", c>> : c \in Closes }
    \cup { <<"Balance", b>> : b \in Balances }
    \cup { <<"Amount", a>> : a \in Amounts }
    \cup { <<"BcOption", o>> : o \in BcOptions }
    \cup { <<"Commodity", c>> : c \in Commodities }
    \cup { <<"Custom", c>> : c \in Customs }
    \cup { <<"Event", e>> : e \in Events }
    \cup { <<"Include", i>> : i \in Includes }
    \cup { <<"Note", n>> : n \in Notes }
    \cup { <<"Pad", p>> : p \in Pads }
    \cup { <<"Price", p>> : p \in Prices }
    \cup { <<"Query", q>> : q \in Queries }
    \cup { <<"Flag", f>> : f \in Flags }

(***************************************************************************)
(* The state machine                                                       *)
(***************************************************************************)
Init ==
    /\ node \in Nodes
    /\ sink = ""
    /\ idx = 1
    /\ result = "running"
    /\ nwrites = 0
    /\ nfailed = 0

\* the writes of one call of Renderer<&T>::render on a node that is not a
\* ledger are made in order until one fails: Ok(()), or the Io error
Emit(calls) ==
    /\ result = "running"
    /\ \E o \in SinkOutcomes(calls) :
          /\ sink' = sink \o o.accepted
          /\ nwrites' = nwrites + o.attempts
          /\ nfailed' = nfailed + (IF o.failedAt = 0 THEN 0 ELSE 1)
          /\ result' = IF o.failedAt = 0 THEN "Ok" ELSE "Io"
    /\ UNCHANGED <<node, idx>>

CallRenderAccount ==
    /\ Kind(node) = "Account"
    /\ Emit(RenderAccount(Val(node)))

CallRenderIncompleteAmount ==
    /\ Kind(node) = "IncompleteAmount"
    /\ Emit(RenderIncompleteAmount(Val(node)))

CallRenderCostSpec ==
    /\ Kind(node) = "CostSpec"
    /\ Emit(RenderCostSpec(Val(node)))

CallRenderOpen ==
    /\ Kind(node) = "Open"
    /\ Emit(RenderOpen(Val(node)))

CallRenderPlugin ==
    /\ Kind(node) = "Plugin"
    /\ Emit(RenderPlugin(Val(node)))

CallRenderPosting ==
    /\ Kind(node) = "Posting"
    /\ Emit(RenderPosting(Val(node)))

CallRenderTransaction ==
    /\ Kind(node) = "Transaction"
    /\ Emit(RenderTransaction(Val(node)))

\* pub fn render(w, document): BasicRenderer::default().render(document, w)
render ==
    /\ Kind(node) = "render"
    /\ Emit(RenderDocument(Val(node)))

\* Renderer<&Directive>::render called on its own: the Unsupported arm
\* returns its error without a write
CallRenderDirective ==
    /\ Kind(node) = "Directive"
    /\ LET r == RenderDirective(Val(node))
       IN  IF r.err = "none"
           THEN Emit(r.calls)
           ELSE /\ result = "running"
                /\ result' = r.err
                /\ UNCHANGED <<node, sink, idx, nwrites, nfailed>>

CallRenderDocument ==
    /\ Kind(node) = "Document"
    /\ Emit(RenderDocument(Val(node)))

CallRenderClose ==
    /\ Kind(node) = "Close"
    /\ Emit(RenderClose(Val(node)))

CallRenderBalance ==
    /\ Kind(node) = "Balance"
    /\ Emit(RenderBalance(Val(node)))

CallRenderAmount ==
    /\ Kind(node) = "Amount"
    /\ Emit(RenderAmount(Val(node)))

CallRenderBcOption ==
    /\ Kind(node) = "BcOption"
    /\ Emit(RenderBcOption(Val(node)))

CallRenderCommodity ==
    /\ Kind(node) = "Commodity"
    /\ Emit(RenderCommodity(Val(node)))

CallRenderCustom ==
    /\ Kind(node) = "Custom"
    /\ Emit(RenderCustom(Val(node)))

CallRenderEvent ==
    /\ Kind(node) = "Event"
    /\ Emit(RenderEvent(Val(node)))

CallRenderInclude ==
    /\ Kind(node) = "Include"
    /\ Emit(RenderInclude(Val(node)))

CallRenderNote ==
    /\ Kind(node) = "Note"
    /\ Emit(RenderNote(Val(node)))

CallRenderPad ==
    /\ Kind(node) = "Pad"
    /\ Emit(RenderPad(Val(node)))

CallRenderPrice ==
    /\ Kind(node) = "Price"
    /\ Emit(RenderPrice(Val(node)))

CallRenderQuery ==
    /\ Kind(node) = "Query"
    /\ Emit(RenderQuery(Val(node)))

CallRenderFlag ==
    /\ Kind(node) = "Flag"
    /\ Emit(RenderFlag(Val(node)))

\* one iteration of the loop of Renderer<&Ledger>::render:
\*   self.render(directive, write)?; writeln!(write, "")?;
LedgerIteration ==
    /\ Kind(node) = "Ledger"
    /\ result = "running"
    /\ idx <= Len(Val(node).directives)
    /\ LET r == RenderDirective(Val(node).directives[idx])
       IN  IF r.err # "none"
           THEN /\ result' = AfterDirective(r.err)
                /\ idx' = IF result' = "running" THEN idx + 1 ELSE idx
                /\ UNCHANGED <<sink, nwrites, nfailed>>
           ELSE \E o \in SinkOutcomes(r.calls \o << "\n" >>) :
                   /\ sink' = sink \o o.accepted
                   /\ nwrites' = nwrites + o.attempts
                   /\ nfailed' = nfailed + (IF o.failedAt = 0 THEN 0 ELSE 1)
                   /\ result' = AfterDirective(IF o.failedAt = 0 THEN "none" ELSE "Io")
                   /\ idx' = IF result' = "running" THEN idx + 1 ELSE idx
    /\ UNCHANGED node

\* the loop is over: Ok(())
LedgerReturn ==
    /\ Kind(node) = "Ledger"
    /\ result = "running"
    /\ idx > Len(Val(node).directives)
    /\ result' = "Ok"
    /\ UNCHANGED <<node, sink, idx, nwrites, nfailed>>

Next ==
    \/ LedgerIteration
    \/ LedgerReturn
    \/ CallRenderAccount
    \/ CallRenderIncompleteAmount
    \/ CallRenderCostSpec
    \/ CallRenderOpen
    \/ CallRenderPlugin
    \/ CallRenderPosting
    \/ CallRenderTransaction
    \/ render
    \/ CallRenderDirective
    \/ CallRenderDocument
    \/ CallRenderClose
    \/ CallRenderBalance
    \/ CallRenderAmount
    \/ CallRenderBcOption
    \/ CallRenderCommodity
    \/ CallRenderCustom
    \/ CallRenderEvent
    \/ CallRenderInclude
    \/ CallRenderNote
    \/ CallRenderPad
    \/ CallRenderPrice
    \/ CallRenderQuery
    \/ CallRenderFlag

Spec == Init /\ [][Next]_vars

(***************************************************************************)
(* Vocabulary of the properties                                            *)
(***************************************************************************)
IsPrefix(p, s) == Len(p) <= Len(s) /\ SubSeq(s, 1, Len(p)) = p

\* number of occurrences of the one-byte string c in s
CountChar(s, c) == Cardinality({ i \in 1..Len(s) : SubSeq(s, i, i) = c })

\* s up to, not including, its first newline
FirstLine(s) ==
    LET nl == { i \in 1..Len(s) : SubSeq(s, i, i) = "\n" }
    IN  IF nl = {} THEN s
        ELSE SubSeq(s, 1, (CHOOSE i \in nl : \A j \in nl : i <= j) - 1)

RECURSIVE LedgerText(_, _)
\* the renderings of the first k directives, each with the newline the
\* ledger loop writes after it
LedgerText(directives, k) ==
    IF k = 0 THEN ""
    ELSE LedgerText(directives, k - 1) \o Concat(DirectiveWrites(directives[k])) \o "\n"

UnsupportedAt(directives) == { i \in 1..Len(directives) : Kind(directives[i]) = "Unsupported" }
FirstUnsupported(directives) ==
    CHOOSE k \in UnsupportedAt(directives) : \A j \in UnsupportedAt(directives) : k <= j

(***************************************************************************)
(* C1: a ledger whose first Unsupported directive is dk never returns Ok;  *)
(* when no write before dk failed it returns Unsupported, the loop stops   *)
(* at dk, and the sink holds exactly the renderings of d1..d(k-1), each    *)
(* with its trailing newline: nothing for dk, nothing for what follows.    *)
(***************************************************************************)
C1_UnsupportedAborts ==
    (Kind(node) = "Ledger" /\ UnsupportedAt(Val(node).directives) # {}) =>
        LET k == FirstUnsupported(Val(node).directives)
        IN  /\ result # "Ok"
            /\ idx <= k
            /\ (result = "Unsupported" => nfailed = 0)
            /\ (result # "running" /\ nfailed = 0) =>
                  /\ result = "Unsupported"
                  /\ idx = k
                  /\ sink = LedgerText(Val(node).directives, k - 1)

\* Unsupported was returned at the second directive: the first one's output
\* is in the sink
C1_Witness ==
    /\ Kind(node) = "Ledger"
    /\ result = "Unsupported"
    /\ idx = Len(Val(node).directives)
    /\ idx > 1
    /\ sink # ""

(***************************************************************************)
(* C2: in a ledger render the sink only ever grows; the step in which a    *)
(* write fails returns Io; after a failed write no write is attempted and  *)
(* the sink keeps what it had accepted, which is a prefix of the ledger's  *)
(* text in writing order.                                                  *)
(***************************************************************************)
C2_IoAborts ==
    [][ Kind(node) = "Ledger" =>
          /\ IsPrefix(sink, sink')
          /\ (nfailed' > nfailed => (result' = "Io" /\ nfailed' = 1))
          /\ (nfailed > 0 => (result = "Io" /\ sink' = sink /\ nwrites' = nwrites))
          /\ (result' = "Io" =>
                /\ idx' <= Len(Val(node).directives)
                /\ IsPrefix(LedgerText(Val(node).directives, idx' - 1), sink')
                /\ IsPrefix(sink', LedgerText(Val(node).directives, idx'))) ]_vars

\* a write failed in the first of two directives, after some bytes
C2_Witness ==
    /\ Kind(node) = "Ledger"
    /\ result = "Io"
    /\ nfailed = 1
    /\ idx = 1
    /\ Len(Val(node).directives) > 1
    /\ sink # ""

(***************************************************************************)
(* C3: a ledger of supported directives rendered to a sink that never      *)
(* fails holds the renderings in stored order, and every two consecutive   *)
(* directives are separated by a blank line: the two bytes before the      *)
(* start of the later directive are newlines.                              *)
(***************************************************************************)
C3_BlankLineBetween ==
    (Kind(node) = "Ledger" /\ result = "Ok") =>
        /\ sink = LedgerText(Val(node).directives, Len(Val(node).directives))
        /\ \A i \in 1..(Len(Val(node).directives) - 1) :
              LET off == Len(LedgerText(Val(node).directives, i))
              IN  off >= 2 /\ SubSeq(sink, off - 1, off) = "\n\n"

(***************************************************************************)
(* C4: an Open renders as <date> open <account>, a space before each       *)
(* currency, the booking suffix, a newline, then the metadata lines; the   *)
(* 2023-01-01 Assets:Bank:Checking USD Strict example renders exactly as   *)
(* stated.                                                                 *)
(***************************************************************************)
C4_OpenFormat ==
    (Kind(node) = "Open" /\ result = "Ok") =>
        /\ sink = Val(node).date \o " open " \o Concat(RenderAccount(Val(node).account))
                  \o Concat(SpacePrefixed(Val(node).currencies))
                  \o Concat(OpenBooking(Val(node).booking)) \o "\n"
                  \o Concat(RenderKeyValue(Val(node).meta))
        /\ (Val(node) = [date |-> "2023-01-01", account |-> Checking, currencies |-> <<"USD">>,
                        booking |-> "Strict", meta |-> <<>>])
              => sink = "2023-01-01 open Assets:Bank:Checking USD \"strict\"\n"

(***************************************************************************)
(* C5: in a rendered Transaction the header is a line of its own and a     *)
(* newline precedes the leading tab of every posting; the Coffee example   *)
(* renders as the header line followed by the separate posting line.       *)
(***************************************************************************)
C5_PostingsOnOwnLines ==
    (Kind(node) = "Transaction" /\ result = "Ok") =>
        /\ \A i \in 1..Len(Val(node).postings) :
              LET off == Len(Concat(TransactionHeader(Val(node))
                                    \o RenderPostings(SubSeq(Val(node).postings, 1, i - 1))))
              IN  SubSeq(sink, off, off + 1) = "\n\t"
        /\ Val(node) = Coffee =>
              StartsWith(sink, "2023-01-01 * \"Coffee\"\n\tExpenses:Food\t5.00 USD")

(***************************************************************************)
(* C6: a rendered CostSpec starts with {{ and ends with }} exactly when a  *)
(* total number is present, otherwise it starts with a single { and ends   *)
(* with a single }; opening and closing braces are equally many.           *)
(***************************************************************************)
C6_CostSpecBraces ==
    (Kind(node) = "CostSpec" /\ result = "Ok") =>
        /\ StartsWith(sink, "{") /\ EndsWith(sink, "}")
        /\ StartsWith(sink, "{{") <=> IsSome(Val(node).number_total)
        /\ EndsWith(sink, "}}") <=> IsSome(Val(node).number_total)
        /\ CountChar(sink, "{") = CountChar(sink, "}")
        /\ CountChar(sink, "{") = IF IsSome(Val(node).number_total) THEN 2 ELSE 1

\* both numbers present: the total decides
C6_Witness ==
    /\ Kind(node) = "CostSpec"
    /\ result = "Ok"
    /\ IsSome(Val(node).number_total)
    /\ IsSome(Val(node).number_per)
    /\ StartsWith(sink, "{{")

(***************************************************************************)
(* C7: an IncompleteAmount renders as nothing, the currency alone, the     *)
(* number alone, or number, one space, currency.                           *)
(***************************************************************************)
C7_IncompleteAmount ==
    (Kind(node) = "IncompleteAmount" /\ result = "Ok") =>
        LET num == Val(node).num
            currency == Val(node).currency
        IN  /\ (num = None /\ currency = None) => sink = ""
            /\ (num = None /\ currency # None) => sink = Unwrap(currency)
            /\ (num # None /\ currency = None) => sink = DecimalToString(Unwrap(num))
            /\ (num # None /\ currency # None) =>
                  sink = DecimalToString(Unwrap(num)) \o " " \o Unwrap(currency)
            /\ (num = None \/ currency = None) => ~Contains(sink, " ")

\* only the currency is present
C7_Witness ==
    /\ Kind(node) = "IncompleteAmount"
    /\ result = "Ok"
    /\ Val(node).num = None
    /\ sink = "USD"

(***************************************************************************)
(* C8: between the braces of a rendered CostSpec stand, comma-separated    *)
(* and in this order, the fields that are present: the cost number (total  *)
(* if present, else per-unit) with the currency, whichever of the two is   *)
(* there, then the date, then the label.                                   *)
(***************************************************************************)
C8_CostSpecContent ==
    (Kind(node) = "CostSpec" /\ result = "Ok") =>
        LET cost == Val(node)
            b == IF IsSome(cost.number_total) THEN 2 ELSE 1
            number == OptionOr(cost.number_total, cost.number_per)
            amount == (IF IsSome(number) THEN << DecimalToString(Unwrap(number)) >> ELSE <<>>)
                      \o cost.currency
            fields == (IF amount # <<>> THEN << Join(amount, " ") >> ELSE <<>>)
                      \o cost.date \o cost.label
        IN  SubSeq(sink, b + 1, Len(sink) - b) = Join(fields, ", ")

(***************************************************************************)
(* C9: an Account renders as its type name and its segments joined by      *)
(* colons, and the rendering never ends with a colon.                      *)
(***************************************************************************)
C9_AccountNoTrailingColon ==
    (Kind(node) = "Account" /\ result = "Ok") =>
        /\ sink = Join(<< AccountTypeName(Val(node).ty) >> \o Val(node).parts, ":")
        /\ ~EndsWith(sink, ":")

(***************************************************************************)
(* C10: an absent optional field contributes no bytes.  Transaction        *)
(* without payee: one space between flag and narration, no empty quotes.   *)
(* Posting: no flag and no space without override flag, no " @ " without   *)
(* price, no braces without cost.  Plugin without config: only             *)
(* plugin "<module>".  Open: no booking suffix for None, exactly one of    *)
(* the four quoted suffixes otherwise.                                     *)
(***************************************************************************)
C10_AbsentFieldsOmitted ==
    /\ (Kind(node) = "Transaction" /\ result = "Ok" /\ Val(node).payee = None) =>
          /\ StartsWith(sink, Val(node).date \o " " \o Concat(RenderFlag(Val(node).flag))
                              \o " \"" \o Val(node).narration \o "\"")
          /\ ~Contains(FirstLine(sink), "\"\"")
    /\ (Kind(node) = "Posting" /\ result = "Ok") =>
          LET account == Concat(RenderAccount(Val(node).account))
              line == FirstLine(sink)
          IN  /\ Val(node).flag = None => StartsWith(sink, "\t" \o account \o "\t")
              /\ Val(node).price = None => ~Contains(line, "@")
              /\ Val(node).cost = None => (~Contains(line, "{") /\ ~Contains(line, "}"))
              /\ (Val(node).flag = None /\ Val(node).price = None /\ Val(node).cost = None) =>
                    sink = "\t" \o account \o "\t"
                           \o Concat(RenderIncompleteAmount(Val(node).units))
                           \o Concat(RenderKeyValue(Val(node).meta))
    /\ (Kind(node) = "Plugin" /\ result = "Ok" /\ Val(node).config = None) =>
          sink = "plugin \"" \o Val(node).module \o "\"\n"
    /\ (Kind(node) = "Open" /\ result = "Ok") =>
          LET line == FirstLine(sink)
              suffixes == {" \"strict\"", " \"average\"", " \"fifo\"", " \"lifo\""}
              expected == [Strict |-> " \"strict\"", Average |-> " \"average\"",
                           Fifo |-> " \"fifo\"", Lifo |-> " \"lifo\""]
          IN  IF Val(node).booking = "None"
              THEN CountChar(line, "\"") = 0
              ELSE /\ CountChar(line, "\"") = 2
                   /\ EndsWith(line, expected[Val(node).booking])
                   /\ Cardinality({ x \in suffixes : Contains(line, x) }) = 1

\* a plugin without config was rendered
C10_Witness ==
    /\ Kind(node) = "Plugin"
    /\ result = "Ok"
    /\ Val(node).config = None
    /\ sink # ""

====
